---------------------------- MODULE Spec2Model ----------------------------
(***************************************************************************)
(* Model of the Marvel API client (api_request.py: ApiRequest and          *)
(* ApiCommunicationError), of its configuration (configuration.py) and of  *)
(* the program of main.py (Main: its flow of API calls up to the writing   *)
(* of out.html, parseStoryData and parseCharacterData).                    *)
(*                                                                         *)
(* A string is a sequence of one-character strings; a Python dict is a     *)
(* function whose domain is its key set.  The remote service is an         *)
(* unchanging dataset: what a request with status 200 returns is a         *)
(* function of its url and fields alone.  The status of each request and   *)
(* the reading of the system clock are chosen by the environment.          *)
(***************************************************************************)
EXTENDS Integers, Sequences, FiniteSets, TLC

VARIABLES
    clock,      \* the system clock as time.time() reads it, counted in units
                \* of its resolution; it never runs backwards here
    sent,       \* the HTTP requests of the call in progress (or of the last
                \* one finished), in order, with how each ended
    earlier,    \* ts, hash and clock reading of every request of the earlier
                \* calls of the run, in order
    ncalls,     \* number of ApiRequest method calls begun in the run
    pc,         \* "idle", or the position inside getCharacterStories
    call,       \* the method call in progress, or the last one finished
    outcome,    \* how the last finished call ended
    story_ids,  \* getCharacterStories: local story_ids
    result,     \* getCharacterStories: local result
    it,         \* getCharacterStories: loop variable
    total_steps,\* getCharacterStories: local total_steps
    failures,   \* the failures of the run: why each happened, what was raised
    parsed,     \* <<the value of Main.parseStoryData>> once it has been applied
                \* to the story of the last call, <<>> before
    signer,     \* the last direct evaluation of __addAuthParms
    last_reply, \* what urllib3 did for the last self.http.request of the call:
                \* its attempts in order, and the repr of the last error
    prev,       \* the call before the last, when the caller has kept it: its
                \* method, argument, requests, the attempts urllib3 made
                \* of the last of them, and how the call ended
    main        \* the run of the main program (main.py), "off" when the
                \* methods are called by another caller

vars == <<clock, sent, earlier, ncalls, pc, call, outcome, story_ids, result, it,
          total_steps, failures, parsed, signer, last_reply, prev, main>>

-----------------------------------------------------------------------------
(* Bounds of the model *)

\* clock readings of a run
MaxClock == 1
\* ApiRequest method calls of a run
MaxCalls == 1
\* character ids known to the dataset are 0..MaxChar
MaxChar == 5
\* creators, series and events of a story: 0..MaxItems each
MaxItems == 2

\* the page size the code asks for (limit '100') and steps by
PageSize == 100

-----------------------------------------------------------------------------
(* Strings *)

Digits == <<"0", "1", "2", "3", "4", "5", "6", "7", "8", "9">>

\* str(n) of a natural number: its decimal digits
RECURSIVE Str(_)
Str(n) == IF n < 10 THEN <<Digits[n + 1]>>
          ELSE Str(n \div 10) \o <<Digits[(n % 10) + 1]>>

\* int(s) of a string of decimal digits
RECURSIVE ParseInt(_)
ParseInt(s) == IF Len(s) = 0 THEN 0
          ELSE 10 * ParseInt(SubSeq(s, 1, Len(s) - 1))
               + ((CHOOSE d \in 1..10 : Digits[d] = s[Len(s)]) - 1)

\* the characters that occur in ts and in the keys, for encode('ascii')
Alphabet == Digits \o <<"a", "b", "c", "d", "e", "f", "k", "p", "v">>

\* s.encode('ascii'): one code per character
Encode(s) == [i \in 1..Len(s) |->
                 47 + (CHOOSE k \in 1..Len(Alphabet) : Alphabet[k] = s[i])]

HexDigits == <<"0", "1", "2", "3", "4", "5", "6", "7",
               "8", "9", "a", "b", "c", "d", "e", "f">>

RECURSIVE Fold(_, _)
Fold(h, bytes) == IF Len(bytes) = 0 THEN h
                  ELSE Fold((h * 33 + Head(bytes)) % 65536, Tail(bytes))

\* hashlib.md5(bytes).hexdigest(): a digest of the byte sequence, as lowercase
\* hex.  MD5 itself is abstracted by a 16-bit digest that depends on every
\* byte and on their order.
Md5Hex(bytes) ==
    LET h == Fold(5381, bytes)
    IN  <<HexDigits[((h \div 4096) % 16) + 1], HexDigits[((h \div 256) % 16) + 1],
          HexDigits[((h \div 16) % 16) + 1], HexDigits[(h % 16) + 1]>>

-----------------------------------------------------------------------------
(* configuration.py *)

\* the content of config.json
ConfParms == [public_key |-> <<"p", "k">>, private_key |-> <<"v", "k">>]

None == <<"None">>

getParm(parm) == IF parm \in DOMAIN ConfParms THEN ConfParms[parm] ELSE None

-----------------------------------------------------------------------------
(* ApiRequest.__addAuthParms *)

AuthKeys == {"ts", "hash", "apikey"}

\* the caller's value replaces the signer's (the dict is updated key by key)
MergeParms(res, request_parms) ==
    [k \in DOMAIN res \cup DOMAIN request_parms |->
        IF k \in DOMAIN request_parms THEN request_parms[k] ELSE res[k]]

\* the keys in the other order: ts + public_key + private_key
HashBase_PublicFirst(ts) == ts \o getParm("public_key") \o getParm("private_key")

\* hashbase = ts + private_key + public_key
HashBase(ts) == ts \o getParm("private_key") \o getParm("public_key")

\* now is the value time.time() returns
addAuthParms(request_parms, now) ==
    LET ts == Str(now)
        hashdigest == Md5Hex(Encode(HashBase(ts)))
        res == [ts |-> ts, hash |-> hashdigest, apikey |-> getParm("public_key")]
    IN  MergeParms(res, request_parms)

-----------------------------------------------------------------------------
(* The remote service: an unchanging dataset *)

BaseUrl == "http://gateway.marvel.com/v1/public"

CharIds == 0..MaxChar

\* the name of character c; characters 0 and 1 share a name, and no character
\* bears the name H1
NameOf(c) == <<"H">> \o Str(IF c < 2 THEN 0 ELSE c)

\* the names a caller asks for: one borne by two characters, one by none, one
\* by a single character
Names == {NameOf(0), <<"H">> \o Str(1), NameOf(MaxChar)}

\* the number of stories of character c: none, one, a page less one, a
\* page, a page and one, then two pages and a half and more
TotalOf(c) ==
    IF c < 2 THEN c
    ELSE IF c < 5 THEN PageSize + c - 3
    ELSE (c - 3) * PageSize + PageSize \div 2

\* the id of the k-th story of character c (k = 1..TotalOf(c))
StoryIdAt(c, k) == 1000 * c + k

CharacterUrl(c) == <<BaseUrl, "characters", Str(c)>>

CharacterRecord(c) ==
    [id |-> c, name |-> NameOf(c), description |-> <<"d">> \o Str(c),
     thumbnail |-> [path |-> <<"t">> \o Str(c), extension |-> <<"j", "p", "g">>],
     resourceURI |-> CharacterUrl(c)]

ItemBase == MaxItems + 1

MaxStory == ItemBase * ItemBase

StoryIds == 0..MaxStory

Creator(i) == [name |-> <<"N">> \o Str(i), role |-> <<"R">> \o Str(i)]

Named(tag, i) == [name |-> <<tag>> \o Str(i)]

\* the numbers of creators, series and events of story s (1..MaxStory): every
\* combination of 0..MaxItems creators and series occurs, and every number
\* 0..MaxItems of events
NCreators(s) == s % ItemBase

NSeries(s) == (s \div ItemBase) % ItemBase

NEvents(s) == (NCreators(s) + NSeries(s)) % ItemBase

StoryCore(s) ==
    [id |-> s, title |-> <<"T">> \o Str(s), description |-> <<"D">> \o Str(s),
     creators |-> [items |-> [i \in 1..NCreators(s) |-> Creator(i)]],
     series |-> [items |-> [i \in 1..NSeries(s) |-> Named("S", i)]],
     events |-> [items |-> [i \in 1..NEvents(s) |-> Named("E", i)]],
     characters |-> [items |-> [i \in 1..NCreators(s) |->
                        [resourceURI |-> CharacterUrl(i), name |-> NameOf(i)]]]]

EnvelopeAttribution == <<"e", "n", "v">>

NestedAttribution == <<"n", "e", "s", "t">>

\* a story with an even id carries an attributionHTML field of its own
StoryRecord(s) ==
    IF s % 2 = 0
    THEN [k \in DOMAIN StoryCore(s) \cup {"attributionHTML"} |->
             IF k = "attributionHTML" THEN NestedAttribution ELSE StoryCore(s)[k]]
    ELSE StoryCore(s)

Envelope(total, results) ==
    [code |-> 200, attributionHTML |-> EnvelopeAttribution,
     data |-> [total |-> total, count |-> Len(results), results |-> results]]

Min(a, b) == IF a < b THEN a ELSE b

\* the page of character c's stories a request with these fields is answered with
StoriesPage(c, fields) ==
    LET offset == IF "offset" \in DOMAIN fields THEN ParseInt(fields["offset"]) ELSE 0
        limit == ParseInt(fields["limit"])
        n == IF TotalOf(c) > offset THEN Min(limit, TotalOf(c) - offset) ELSE 0
    IN  Envelope(TotalOf(c), [i \in 1..n |-> [id |-> StoryIdAt(c, offset + i)]])

\* the json of the answer to a GET of url with fields, when its status is 200
Body(url, fields) ==
    IF Len(url) = 2 /\ url[2] = "characters"
    THEN LET match == {c \in CharIds : NameOf(c) = fields["name"]}
             first == CHOOSE c \in match : \A d \in match : c <= d
         IN  Envelope(Cardinality(match),
                      IF match = {} THEN <<>>
                      ELSE [i \in 1..Cardinality(match) |-> CharacterRecord(first + i - 1)])
    ELSE IF Len(url) = 3 /\ url[2] = "characters"
    THEN Envelope(1, <<CharacterRecord(ParseInt(url[3]))>>)
    ELSE IF Len(url) = 4
    THEN StoriesPage(ParseInt(url[3]), fields)
    ELSE LET s == ParseInt(url[3])
         IN  IF s = 0 THEN Envelope(0, <<>>) ELSE Envelope(1, <<StoryRecord(s)>>)

\* the statuses the service answers with
Statuses == {200, 204, 500}

\* urllib3.PoolManager() is built with the default Retry: three retries
Retries == 3

\* One self.http.request is a sequence of attempts.  An attempt ends without
\* a response (the connection is refused, so that nothing is written; or it
\* is closed or reset after the request was written), or with a response.  A
\* response 503 that carries Retry-After is retried while retries are left,
\* as is any attempt without a response; any other response is returned.
Refused == [end |-> "refused", status |-> 0]

Closed == [end |-> "closed", status |-> 0]

Reset == [end |-> "reset", status |-> 0]

RetryAfter == [end |-> "retry_after", status |-> 503]

Answer(status) == [end |-> "answer", status |-> status]

NoAnswer == {"refused", "closed", "reset"}

Times(attempt, n) == [i \in 1..n |-> attempt]

\* the attempts before the one that is answered
Leads == {<<>>, <<Refused>>, <<Closed>>, <<RetryAfter>>, Times(Closed, Retries)}

\* Retries + 1 attempts, none with a response
GiveUps == {Times(Refused, Retries + 1), Times(Closed, Retries + 1),
            Times(Reset, Retries + 1), Append(Times(Closed, Retries), Refused),
            Append(Times(Refused, Retries), Closed)}

\* repr of the error of a refused connection: it names the connection object
\* by its address, which differs from call to call (urllib3 1.x), or by host
\* and port (urllib3 2.x)
RefusedReprs ==
    {"NewConnectionError('<urllib3.connection.HTTPConnection object at 0x7fbe0947f590>: Failed to establish a new connection: [Errno 111] Connection refused')",
     "NewConnectionError('<urllib3.connection.HTTPConnection object at 0x7fbe0947f5d0>: Failed to establish a new connection: [Errno 111] Connection refused')",
     "NewConnectionError(\"HTTPConnection(host='gateway.marvel.com', port=80): Failed to establish a new connection: [Errno 111] Connection refused\")"}

ClosedRepr ==
    "ProtocolError('Connection aborted.', RemoteDisconnected('Remote end closed connection without response'))"

ResetRepr ==
    "ProtocolError('Connection aborted.', ConnectionResetError(104, 'Connection reset by peer'))"

\* the reprs the error of an attempt without a response can have
CauseReprs(attempt) ==
    IF attempt.end = "refused" THEN RefusedReprs
    ELSE IF attempt.end = "closed" THEN {ClosedRepr} ELSE {ResetRepr}

\* how a self.http.request can go: its attempts, and for one that gives up
\* the repr of the error of the last attempt
Replies ==
    {[attempts |-> Append(l, Answer(s)), cause |-> ""] : l \in Leads, s \in Statuses}
    \cup UNION {{[attempts |-> g, cause |-> c] : c \in CauseReprs(g[Len(g)])} :
                   g \in GiveUps}

NoReply == [attempts |-> <<>>, cause |-> ""]

\* the attempts that got no response
FailedOf(attempts) ==
    Cardinality({i \in 1..Len(attempts) : attempts[i].end \in NoAnswer})

\* the times the request was written to a connection
WireOf(attempts) ==
    Cardinality({i \in 1..Len(attempts) : attempts[i].end # "refused"})

\* "response" when self.http.request returns, "failure" when it raises
Kind(reply) ==
    IF reply.attempts[Len(reply.attempts)].end \in NoAnswer THEN "failure"
    ELSE "response"

\* request.status
StatusOf(reply) == reply.attempts[Len(reply.attempts)].status

\* how self.http.request ended
HowEnded(reply) ==
    [kind |-> Kind(reply), status |-> StatusOf(reply),
     failed |-> FailedOf(reply.attempts), wire |-> WireOf(reply.attempts)]

\* what __apiRequest sees of it
Seen(reply) == [kind |-> Kind(reply), status |-> StatusOf(reply)]

-----------------------------------------------------------------------------
(* Exceptions and how a method call ends *)

Exception(class, text, arg) == [class |-> class, text |-> text, arg |-> arg]

\* ApiCommunicationError(message): message is text with arg formatted into it
ApiCommunicationError(text, arg) == Exception("ApiCommunicationError", text, arg)

BasePath == "/v1/public"

\* the keys of the query in the order of the dict: ts, hash, apikey, then
\* the caller's
QueryKeys == <<"ts", "hash", "apikey", "name", "limit", "offset">>

RECURSIVE QueryFrom(_, _)
QueryFrom(keys, fields) ==
    IF Len(keys) = 0 THEN <<>>
    ELSE LET k == Head(keys)
             rest == QueryFrom(Tail(keys), fields)
         IN  IF k \in DOMAIN fields THEN <<"&", k, "=">> \o fields[k] \o rest
             ELSE rest

\* the request target urllib3 builds from url and fields
RequestUri(url, fields) ==
    <<BasePath, "/", url[2]>>
        \o (IF Len(url) >= 3 THEN <<"/">> \o url[3] ELSE <<>>)
        \o (IF Len(url) = 4 THEN <<"/", url[4]>> ELSE <<>>)
        \o <<"?">> \o Tail(QueryFrom(QueryKeys, fields))

MaxRetryText ==
    "HTTPConnectionPool(host='gateway.marvel.com', port=80): Max retries exceeded with url: {} (Caused by {})"

\* what self.http.request raises when it gives up: MaxRetryError, a
\* urllib3.exceptions.HTTPError; arg is the request target followed by the
\* repr of the last error, the two values of the message
TransportError(url, fields, reply) ==
    Exception("urllib3.exceptions.MaxRetryError", MaxRetryText,
              Append(RequestUri(url, fields), reply.cause))

NoExc == Exception("", "", <<>>)

StatusText == "Failed to retrieve data from Marvel, HTTP Status {}"

NoCharacterText == "No character with the name {} found"

NoStoriesText == "The character ID {} did not return any stories"

NoStoryText == "The story ID {} does not exist"

NotFoundTexts == {NoCharacterText, NoStoriesText, NoStoryText}

\* cause: why the call failed ("none", "not_found", "status", "transport")
Raise(exc, cause) == [raised |-> TRUE, exc |-> exc, value |-> None, cause |-> cause]

Return(value) == [raised |-> FALSE, exc |-> NoExc, value |-> value, cause |-> "none"]

-----------------------------------------------------------------------------
(* ApiRequest.__apiRequest *)

\* the status test of __apiRequest: TRUE when the response is taken as a failure
StatusIsError(status) == status # 200

\* what __apiRequest raises for a reply, NoExc when it returns
RequestExc(url, fields, reply) ==
    IF Kind(reply) = "failure" THEN TransportError(url, fields, reply)
    ELSE IF StatusIsError(StatusOf(reply))
         THEN ApiCommunicationError(StatusText, Str(StatusOf(reply)))
         ELSE NoExc

RequestCause(reply) ==
    IF Kind(reply) = "failure" THEN "transport"
    ELSE IF StatusIsError(StatusOf(reply)) THEN "status" ELSE "none"

\* one __apiRequest(url, parms) at clock reading now, answered with reply: the
\* request as it is logged, with what __apiRequest raised and returned
apiRequest(url, parms, now, reply) ==
    LET authparms == addAuthParms(parms, now)
    IN  [url |-> url, fields |-> authparms, reply |-> Seen(reply), at |-> now,
         exc |-> RequestExc(url, authparms, reply), cause |-> RequestCause(reply),
         json |-> IF RequestExc(url, authparms, reply) = NoExc
                  THEN Body(url, authparms) ELSE None]

\* the request as the log keeps it: without the json returned
Logged(req) == [k \in DOMAIN req \ {"json"} |-> req[k]]

Stamp(req) == [ts |-> req.fields["ts"], hash |-> req.fields["hash"], at |-> req.at]

Failed(req) == req.exc # NoExc

-----------------------------------------------------------------------------
(* ApiRequest.getCharacterId, getCharacterInfoFromUrl, getStoryData *)

\* the test off by one: a single match is taken for none
NoneFound_OffByOne(count) == count <= 1

\* the test "count < 1" of getCharacterId and getStoryData, "total < 1" of
\* getCharacterStories
NoneFound(count) == count < 1

getCharacterId(character_name, req) ==
    IF Failed(req) THEN Raise(req.exc, req.cause)
    ELSE IF NoneFound(req.json.data.count)
         THEN Raise(ApiCommunicationError(NoCharacterText, character_name), "not_found")
         ELSE Return(req.json.data.results[1].id)

getCharacterInfoFromUrl(char_url, req) ==
    IF Failed(req) THEN Raise(req.exc, req.cause)
    ELSE Return(req.json.data.results[1])

\* the attributionHTML of the result is kept when it has one
AttachAttribution_KeepNested(story_data, json) ==
    [k \in DOMAIN story_data \cup {"attributionHTML"} |->
        IF k \in DOMAIN story_data THEN story_data[k] ELSE json.attributionHTML]

\* story_data['attributionHTML'] = result['attributionHTML']
AttachAttribution(story_data, json) ==
    [k \in DOMAIN story_data \cup {"attributionHTML"} |->
        IF k = "attributionHTML" THEN json.attributionHTML ELSE story_data[k]]

getStoryData(story_id, req) ==
    IF Failed(req) THEN Raise(req.exc, req.cause)
    ELSE IF NoneFound(req.json.data.count)
         THEN Raise(ApiCommunicationError(NoStoryText, Str(story_id)), "not_found")
         ELSE Return(AttachAttribution(req.json.data.results[1], req.json))

-----------------------------------------------------------------------------
(* ApiRequest.getCharacterStories *)

StoriesUrl(character_id) == <<BaseUrl, "characters", Str(character_id), "stories">>

CharactersUrl == <<BaseUrl, "characters">>

StoryUrl(story_id) == <<BaseUrl, "stories", Str(story_id)>>

\* parms of the first request
FirstParms == [limit |-> Str(PageSize)]

\* parms of the request of loop iteration i
LoopParms(i) == [limit |-> Str(PageSize), offset |-> Str((i + 1) * PageSize)]

\* math.ceil(total_stories/100)
TotalSteps(total_stories) == (total_stories + PageSize - 1) \div PageSize

\* the ids of result['data']['results'], in order
PageIds(json) == [i \in 1..Len(json.data.results) |-> json.data.results[i].id]

\* the handler of a failed request inside the loop: except ...: raise
OnPageError(req, ids) == Raise(req.exc, req.cause)

-----------------------------------------------------------------------------
(* Main.parseStoryData *)

\* s[:-2]
DropLastTwo(s) == IF Len(s) <= 2 THEN <<>> ELSE SubSeq(s, 1, Len(s) - 2)

\* '{} ({}), '.format(it['name'], it['role'])
AuthorEntry(item) == item.name \o <<" ", "(">> \o item.role \o <<")", ",", " ">>

\* '{}, '.format(it['name'])
NameEntry(item) == item.name \o <<",", " ">>

RECURSIVE AuthorsAcc(_, _)
AuthorsAcc(acc, items) ==
    IF Len(items) = 0 THEN acc
    ELSE AuthorsAcc(acc \o AuthorEntry(Head(items)), Tail(items))

RECURSIVE NamesAcc(_, _)
NamesAcc(acc, items) ==
    IF Len(items) = 0 THEN acc
    ELSE NamesAcc(acc \o NameEntry(Head(items)), Tail(items))

\* s[:-1]: only the blank of the last separator is cut
Trim_DropOne(s) == IF Len(s) <= 1 THEN <<>> ELSE SubSeq(s, 1, Len(s) - 1)

\* what the code does with the accumulated string: res[...] = res[...][:-2]
Trim(s) == DropLastTwo(s)

parseStoryData(story_data) ==
    [title |-> story_data.title,
     description |-> story_data.description,
     attributionHTML |-> story_data.attributionHTML,
     authors |-> Trim(AuthorsAcc(<<>>, story_data.creators.items)),
     series |-> Trim(NamesAcc(<<>>, story_data.series.items)),
     events |-> Trim(NamesAcc(<<>>, story_data.events.items))]

-----------------------------------------------------------------------------
(* The run: a caller invokes the methods of one ApiRequest object, one call *)
(* after the other, while the clock advances as it will                     *)

Pending == [raised |-> FALSE, exc |-> NoExc, value |-> None, cause |-> "pending"]

NoCall == [op |-> "none", arg |-> None]

NoSigner == [parms |-> <<>>, now |-> 0, state |-> "unused", res |-> <<>>]

Stamps(reqs) == [i \in 1..Len(reqs) |-> Stamp(reqs[i])]

NoPrev == [op |-> "none", arg |-> None, requests |-> <<>>, attempts |-> <<>>,
           outcome |-> Pending]

NoMain == [pc |-> "off"]

Init ==
    /\ clock = 0
    /\ sent = <<>>
    /\ earlier = <<>>
    /\ ncalls = 0
    /\ pc = "idle"
    /\ call = NoCall
    /\ outcome = Pending
    /\ story_ids = <<>>
    /\ result = None
    /\ it = 0
    /\ total_steps = 0
    /\ failures = {}
    /\ parsed = <<>>
    /\ signer = NoSigner
    /\ last_reply = NoReply
    /\ prev = NoPrev
    /\ main = NoMain

\* a method is entered by a caller that holds no outcome of an earlier call;
\* the main program bounds the number of its calls itself, as does a caller
\* that has kept a call to make it once more
BeginCall(op, arg) ==
    /\ pc = "idle"
    /\ call.op = "none"
    /\ main.pc # "off" \/ prev.op # "none" \/ ncalls < MaxCalls
    /\ ncalls' = ncalls + 1
    /\ call' = [op |-> op, arg |-> arg]
    /\ UNCHANGED <<earlier, parsed>>

\* a method is left, by return or by an exception
Finish(o) ==
    /\ outcome' = o
    /\ pc' = "idle"
    /\ failures' = IF o.raised
                   THEN failures \cup {[cause |-> o.cause, class |-> o.exc.class,
                                        text |-> o.exc.text]}
                   ELSE failures
    /\ story_ids' = <<>>
    /\ result' = None
    /\ it' = 0
    /\ total_steps' = 0

\* the caller is done with the outcome of the last call and goes on: what the
\* call returned is dropped, its requests are kept as earlier requests
ResumeBody ==
    /\ pc = "idle"
    /\ call.op # "none"
    /\ call' = NoCall
    /\ outcome' = Pending
    /\ sent' = <<>>
    /\ earlier' = earlier \o Stamps(sent)
    /\ parsed' = <<>>
    /\ last_reply' = NoReply
    /\ UNCHANGED <<clock, ncalls, pc, story_ids, result, it, total_steps, failures,
                   signer>>

Resume ==
    /\ ResumeBody
    /\ UNCHANGED <<prev, main>>

\* time passes
Tick ==
    /\ clock < MaxClock
    /\ clock' = clock + 1
    /\ UNCHANGED <<sent, earlier, ncalls, pc, call, outcome, story_ids, result, it,
                   total_steps, failures, parsed, signer, last_reply,
                   prev, main>>

GetCharacterId(character_name, reply) ==
    /\ BeginCall("getCharacterId", character_name)
    /\ LET req == apiRequest(CharactersUrl, [name |-> character_name], clock, reply)
       IN  /\ sent' = <<Logged(req)>>
           /\ Finish(getCharacterId(character_name, req))
    /\ last_reply' = reply
    /\ UNCHANGED <<clock, signer>>

\* parms={} is the default of __apiRequest
GetCharacterInfoFromUrl(char_url, reply) ==
    /\ BeginCall("getCharacterInfoFromUrl", char_url)
    /\ LET req == apiRequest(char_url, <<>>, clock, reply)
       IN  /\ sent' = <<Logged(req)>>
           /\ Finish(getCharacterInfoFromUrl(char_url, req))
    /\ last_reply' = reply
    /\ UNCHANGED <<clock, signer>>

GetStoryData(story_id, reply) ==
    /\ BeginCall("getStoryData", story_id)
    /\ LET req == apiRequest(StoryUrl(story_id), <<>>, clock, reply)
       IN  /\ sent' = <<Logged(req)>>
           /\ Finish(getStoryData(story_id, req))
    /\ last_reply' = reply
    /\ UNCHANGED <<clock, signer>>

\* getCharacterStories up to the loop: the first request and the test of total
GetCharacterStories(character_id, reply) ==
    /\ BeginCall("getCharacterStories", character_id)
    /\ LET req == apiRequest(StoriesUrl(character_id), FirstParms, clock, reply)
       IN  /\ sent' = <<Logged(req)>>
           /\ IF Failed(req)
              THEN Finish(Raise(req.exc, req.cause))
              ELSE IF NoneFound(req.json.data.total)
              THEN Finish(Raise(ApiCommunicationError(NoStoriesText, Str(character_id)),
                                "not_found"))
              ELSE /\ pc' = "loop"
                   /\ outcome' = Pending
                   /\ story_ids' = <<>>
                   /\ result' = req.json
                   /\ it' = 0
                   /\ total_steps' = TotalSteps(req.json.data.total)
                   /\ UNCHANGED failures
    /\ last_reply' = reply
    /\ UNCHANGED <<clock, signer>>

\* one iteration of the loop of getCharacterStories: the ids of result are
\* appended, the next page is requested, and the method returns story_ids
StoriesIteration(reply) ==
    /\ pc = "loop"
    /\ it < total_steps
    /\ LET ids == story_ids \o PageIds(result)
           req == apiRequest(StoriesUrl(call.arg), LoopParms(it), clock, reply)
       IN  /\ sent' = Append(sent, Logged(req))
           /\ IF Failed(req)
              THEN Finish(OnPageError(req, ids))
              ELSE Finish(Return(ids))
    /\ last_reply' = reply
    /\ UNCHANGED <<clock, earlier, ncalls, call, parsed, signer>>

\* Main.parseStoryData on the story getStoryData has just returned
ParseStoryData ==
    /\ pc = "idle"
    /\ call.op = "getStoryData"
    /\ ~outcome.raised
    /\ parsed = <<>>
    /\ parsed' = <<parseStoryData(outcome.value)>>
    /\ UNCHANGED <<clock, sent, earlier, ncalls, pc, call, outcome, story_ids, result,
                   it, total_steps, failures, signer, last_reply, prev, main>>

Urls == {CharacterUrl(c) : c \in {0, MaxChar}}

Next ==
    \/ Tick
    \/ Resume
    \/ \E n \in Names, r \in Replies :
          GetCharacterId(n, r) /\ UNCHANGED <<prev, main>>
    \/ \E u \in Urls, r \in Replies :
          GetCharacterInfoFromUrl(u, r) /\ UNCHANGED <<prev, main>>
    \/ \E s \in StoryIds, r \in Replies :
          GetStoryData(s, r) /\ UNCHANGED <<prev, main>>
    \/ \E c \in CharIds, r \in Replies :
          GetCharacterStories(c, r) /\ UNCHANGED <<prev, main>>
    \/ \E r \in Replies : StoriesIteration(r) /\ UNCHANGED <<prev, main>>
    \/ ParseStoryData

Spec == Init /\ [][Next]_vars

-----------------------------------------------------------------------------
(* A caller that repeats a call: it keeps the outcome of a call and makes   *)
(* the same call again, with the same argument                              *)

RepliesOf(reqs) == [i \in 1..Len(reqs) |-> reqs[i].reply]

\* the caller keeps the last call and its outcome, and goes on
Remember ==
    /\ prev.op = "none"
    /\ ResumeBody
    /\ prev' = [op |-> call.op, arg |-> call.arg, requests |-> sent,
                attempts |-> last_reply.attempts, outcome |-> outcome]
    /\ UNCHANGED main

\* a caller that has kept a call makes that call again
Repeats(op, arg) == prev.op = "none" \/ (prev.op = op /\ prev.arg = arg)

NextRepeat ==
    \/ Tick
    \/ Remember
    \/ \E n \in Names, r \in Replies :
          Repeats("getCharacterId", n) /\ GetCharacterId(n, r)
              /\ UNCHANGED <<prev, main>>
    \/ \E u \in Urls, r \in Replies :
          Repeats("getCharacterInfoFromUrl", u) /\ GetCharacterInfoFromUrl(u, r)
              /\ UNCHANGED <<prev, main>>
    \/ \E s \in StoryIds, r \in Replies :
          Repeats("getStoryData", s) /\ GetStoryData(s, r)
              /\ UNCHANGED <<prev, main>>
    \/ \E c \in CharIds, r \in Replies :
          Repeats("getCharacterStories", c) /\ GetCharacterStories(c, r)
              /\ UNCHANGED <<prev, main>>
    \/ \E r \in Replies : StoriesIteration(r) /\ UNCHANGED <<prev, main>>

SpecRepeat == Init /\ [][NextRepeat]_vars

-----------------------------------------------------------------------------
(* The main program: Main() parses the command line, in --name mode picks   *)
(* a story of the character at random, fetches the story and each of its    *)
(* characters, renders the page and writes out.html                         *)

\* Main.parseCharacterData
parseCharacterData(character_data) ==
    [name |-> character_data.name,
     description |-> character_data.description,
     image_url |-> character_data.thumbnail.path \o <<".">>
                       \o character_data.thumbnail.extension]

\* what template.render is given; templates/story.html turns it into the page
Render(story_data, character_data) ==
    [story_data |-> story_data, character_data |-> character_data]

\* the program after parse_args: nothing fetched, out.html not written
MainStart(mode, name, story_id) ==
    [pc |-> IF mode = "name" THEN "getCharacterId" ELSE "getStoryData",
     mode |-> mode, name |-> name, char_id |-> <<>>, story_id |-> story_id,
     story_data |-> <<>>, items |-> <<>>, char_calls |-> <<>>,
     character_data |-> <<>>, file |-> <<>>]

InitMain ==
    /\ clock = 0
    /\ sent = <<>>
    /\ earlier = <<>>
    /\ ncalls = 0
    /\ pc = "idle"
    /\ call = NoCall
    /\ outcome = Pending
    /\ story_ids = <<>>
    /\ result = None
    /\ it = 0
    /\ total_steps = 0
    /\ failures = {}
    /\ parsed = <<>>
    /\ signer = NoSigner
    /\ last_reply = NoReply
    /\ prev = NoPrev
    /\ main \in {MainStart("name", n, <<>>) : n \in Names}
                 \cup {MainStart("id", None, <<s>>) : s \in StoryIds}

\* the program has ended: by return, by sys.exit(1), or by an exception that
\* nothing caught
MainEnded(m) == m.pc \in {"done", "exit1", "uncaught"}

\* the character loop goes on after a character that could not be fetched
OnCharacterFailure_Skip(m, exc) == m

\* try: ... except ApiCommunicationError: sys.exit(1); any other exception
\* leaves Main() uncaught
OnApiError(m, exc) ==
    [m EXCEPT !.pc = IF exc.class = "ApiCommunicationError" THEN "exit1"
                     ELSE "uncaught"]

\* the character loop has no try: whatever getCharacterInfoFromUrl raises
\* leaves Main() uncaught
OnCharacterFailure(m, exc) == [m EXCEPT !.pc = "uncaught"]

\* the program goes on to its next statement with what it has kept
MainResume ==
    /\ main.pc # "off"
    /\ ~MainEnded(main)
    /\ ResumeBody
    /\ UNCHANGED <<prev, main>>

MainGetCharacterId(reply) ==
    /\ main.pc = "getCharacterId"
    /\ GetCharacterId(main.name, reply)
    /\ main' = IF outcome'.raised THEN OnApiError(main, outcome'.exc)
               ELSE [main EXCEPT !.pc = "getCharacterStories",
                                 !.char_id = <<outcome'.value>>]
    /\ UNCHANGED prev

MainGetCharacterStories(reply) ==
    /\ main.pc = "getCharacterStories"
    /\ GetCharacterStories(main.char_id[1], reply)
    /\ main' = IF pc' = "loop" THEN main ELSE OnApiError(main, outcome'.exc)
    /\ UNCHANGED prev

\* the loop of getCharacterStories, then random.choice(char_stories)
MainStoriesIteration(reply) ==
    /\ main.pc = "getCharacterStories"
    /\ StoriesIteration(reply)
    /\ IF outcome'.raised
       THEN main' = OnApiError(main, outcome'.exc)
       ELSE \E i \in 1..Len(outcome'.value) :
               main' = [main EXCEPT !.pc = "getStoryData",
                                    !.story_id = <<outcome'.value[i]>>]
    /\ UNCHANGED prev

\* getStoryData, then parseStoryData(raw_data)
MainGetStoryData(reply) ==
    /\ main.pc = "getStoryData"
    /\ GetStoryData(main.story_id[1], reply)
    /\ main' = IF outcome'.raised THEN OnApiError(main, outcome'.exc)
               ELSE [main EXCEPT !.pc = "characters",
                                 !.story_data = <<parseStoryData(outcome'.value)>>,
                                 !.items = outcome'.value.characters.items]
    /\ UNCHANGED prev

\* one turn of the loop over raw_data['characters']['items']
MainGetCharacterInfo(reply) ==
    /\ main.pc = "characters"
    /\ Len(main.char_calls) < Len(main.items)
    /\ LET itchar == main.items[Len(main.char_calls) + 1]
           m == [main EXCEPT !.char_calls = Append(@, itchar.resourceURI)]
       IN  /\ GetCharacterInfoFromUrl(itchar.resourceURI, reply)
           /\ main' = IF outcome'.raised THEN OnCharacterFailure(m, outcome'.exc)
                      ELSE [m EXCEPT !.character_data =
                                        Append(@, parseCharacterData(outcome'.value))]
    /\ UNCHANGED prev

\* the loop is over: the template is rendered and out.html written
MainWrite ==
    /\ main.pc = "characters"
    /\ Len(main.char_calls) = Len(main.items)
    /\ pc = "idle"
    /\ main' = [main EXCEPT !.pc = "done",
                            !.file = <<Render(main.story_data[1],
                                              main.character_data)>>]
    /\ UNCHANGED <<clock, sent, earlier, ncalls, pc, call, outcome, story_ids, result,
                   it, total_steps, failures, parsed, signer, last_reply,
                   prev>>

NextMain ==
    \/ Tick
    \/ MainResume
    \/ \E r \in Replies : MainGetCharacterId(r)
    \/ \E r \in Replies : MainGetCharacterStories(r)
    \/ \E r \in Replies : MainStoriesIteration(r)
    \/ \E r \in Replies : MainGetStoryData(r)
    \/ \E r \in Replies : MainGetCharacterInfo(r)
    \/ MainWrite

SpecMain == InitMain /\ [][NextMain]_vars

-----------------------------------------------------------------------------
(* The signer alone, on any parameter set *)

ParamKeys == AuthKeys \cup {"name", "limit", "offset"}

ParamValues == {Str(PageSize), <<"a">>}

ParamSets == UNION {[K -> ParamValues] : K \in SUBSET ParamKeys}

InitSigner ==
    /\ clock = 0
    /\ sent = <<>>
    /\ earlier = <<>>
    /\ ncalls = 0
    /\ pc = "idle"
    /\ call = NoCall
    /\ outcome = Pending
    /\ story_ids = <<>>
    /\ result = None
    /\ it = 0
    /\ total_steps = 0
    /\ failures = {}
    /\ parsed = <<>>
    /\ last_reply = NoReply
    /\ prev = NoPrev
    /\ main = NoMain
    /\ signer \in {[parms |-> p, now |-> n, state |-> "ready", res |-> <<>>] :
                      p \in ParamSets, n \in 0..MaxClock}

\* res = __addAuthParms(parms), the clock reading now
Sign ==
    /\ signer.state = "ready"
    /\ signer' = [signer EXCEPT !.state = "signed",
                                !.res = addAuthParms(signer.parms, signer.now)]
    /\ UNCHANGED <<clock, sent, earlier, ncalls, pc, call, outcome, story_ids, result,
                   it, total_steps, failures, parsed, last_reply, prev,
                   main>>

NextSigner == Sign

SpecSigner == InitSigner /\ [][NextSigner]_vars

-----------------------------------------------------------------------------
(* Properties *)

\* the last call begun has ended
Finished == pc = "idle" /\ call.op # "none"

Succeeded == Finished /\ ~outcome.raised

\* every story id of character c, in the order of the dataset
AllStoryIds(c) == [k \in 1..TotalOf(c) |-> StoryIdAt(c, k)]

OffsetOf(req) == IF "offset" \in DOMAIN req.fields THEN ParseInt(req.fields["offset"])
                 ELSE 0

Is2xx(status) == 200 <= status /\ status <= 299

\* C1: a successful getCharacterStories returns the ids of all the stories
\* of the character, every page in page order and in in-page order, never a
\* prefix of the pages.
C1_ReturnsAllStoryIds ==
    (call.op = "getCharacterStories" /\ Succeeded)
        => outcome.value = AllStoryIds(call.arg)

\* C2: a successful getCharacterStories has issued exactly ceil(T/100)
\* requests, with limit 100 and offsets 0, 100, ... in that order, none at or
\* beyond ceil(T/100)*100.
C2_RequestsEveryPageOnce ==
    (call.op = "getCharacterStories" /\ Succeeded)
        => /\ Len(sent) = TotalSteps(TotalOf(call.arg))
           /\ \A i \in 1..Len(sent) :
                 /\ OffsetOf(sent[i]) = (i - 1) * PageSize
                 /\ sent[i].fields["limit"] = Str(PageSize)

\* C3: a request that ends with a non-2xx status or with a transport failure
\* makes the operation fail with an ApiCommunicationError carrying the status
\* or cause; a request that ends with a 2xx status produces no
\* ApiCommunicationError.
C3_CommunicationErrorIffNot2xx ==
    \A i \in 1..Len(sent) :
        IF sent[i].reply.kind = "response" /\ Is2xx(sent[i].reply.status)
        THEN sent[i].exc.class # "ApiCommunicationError"
        ELSE /\ Finished
             /\ outcome.raised
             /\ outcome.exc.class = "ApiCommunicationError"
             /\ sent[i].reply.kind = "response"
                    => outcome.exc.arg = Str(sent[i].reply.status)

\* the characters of the dataset that bear a name
Bearers(name) == {c \in CharIds : NameOf(c) = name}

IsNotFound(o) ==
    /\ o.raised
    /\ o.cause = "not_found"
    /\ o.exc.text \in NotFoundTexts

\* C4: when the response is well formed (status 200) and reports zero
\* matching resources, getCharacterId, getCharacterStories and getStoryData
\* fail with the not-found error and return no value; otherwise
\* getCharacterId returns the id of the first result and getStoryData the
\* first result.
C4_NotFoundOnZero ==
    (Finished /\ ~Failed(sent[1])) =>
        /\ call.op = "getCharacterId" =>
              IF Bearers(call.arg) = {} THEN IsNotFound(outcome)
              ELSE /\ ~outcome.raised
                   /\ outcome.value \in Bearers(call.arg)
                   /\ \A c \in Bearers(call.arg) : outcome.value <= c
        /\ call.op = "getCharacterStories" =>
              IF TotalOf(call.arg) < 1 THEN IsNotFound(outcome) /\ Len(sent) = 1
              ELSE ~IsNotFound(outcome)
        /\ call.op = "getStoryData" =>
              IF call.arg = 0 THEN IsNotFound(outcome)
              ELSE /\ ~outcome.raised
                   /\ \A k \in DOMAIN StoryCore(call.arg) :
                         outcome.value[k] = StoryCore(call.arg)[k]

\* an unknown story has been asked for, the request was answered with 200
\* and the call has failed
C4_Witness ==
    /\ Finished
    /\ ~Failed(sent[1])
    /\ call.op = "getStoryData"
    /\ call.arg = 0
    /\ outcome.raised
    /\ NoStoryText \in {f.text : f \in failures}

\* a failed page request ends the call with that request's error unchanged:
\* no ids are returned, getCharacterStories does not issue the request again
\* and no request follows it
PageFailureEndsCall(i) ==
    /\ i = Len(sent)
    /\ Finished
    /\ outcome.raised
    /\ outcome.exc = sent[i].exc
    /\ \A j \in 1..(i - 1) : OffsetOf(sent[j]) # OffsetOf(sent[i])

\* C5 as stated: in getCharacterStories a failed page request ends the call
\* with that request's error unchanged, no ids are returned, the failed
\* request is not retried (it is attempted once) and no request follows it.
C5_FailedRequestNotRetried ==
    call.op = "getCharacterStories" =>
        \A i \in 1..Len(sent) :
            Failed(sent[i]) =>
                /\ PageFailureEndsCall(i)
                /\ Len(last_reply.attempts) = 1

\* the digest of ts and the keys of the configuration, private key first
ExpectedHash(ts) ==
    Md5Hex(Encode(ts \o ConfParms.private_key \o ConfParms.public_key))

\* C6 as stated: for any caller-supplied parameter set the signer returns
\* ts, hash, apikey and every caller key with the caller's value, apikey
\* being the public key and hash the MD5 of the returned ts and the keys.
C6_SignerAnyParms ==
    signer.state = "signed" =>
        /\ AuthKeys \subseteq DOMAIN signer.res
        /\ \A k \in DOMAIN signer.parms : signer.res[k] = signer.parms[k]
        /\ signer.res["apikey"] = ConfParms.public_key
        /\ signer.res["hash"] = ExpectedHash(signer.res["ts"])

\* C6 amended: the signer returns exactly ts, hash, apikey and the
\* caller's keys, every caller key with the caller's value; each of ts, hash,
\* apikey the caller did not supply is the signer's: the clock reading, the
\* MD5 of that reading and the keys, the public key.  When the caller supplies
\* none of the three, hash is the MD5 of the returned ts and the keys.
C6_SignerCallerWins ==
    signer.state = "signed" =>
        /\ DOMAIN signer.res = AuthKeys \cup DOMAIN signer.parms
        /\ \A k \in DOMAIN signer.parms : signer.res[k] = signer.parms[k]
        /\ "ts" \notin DOMAIN signer.parms => signer.res["ts"] = Str(signer.now)
        /\ "apikey" \notin DOMAIN signer.parms
              => signer.res["apikey"] = ConfParms.public_key
        /\ "hash" \notin DOMAIN signer.parms
              => signer.res["hash"] = ExpectedHash(Str(signer.now))
        /\ DOMAIN signer.parms \cap AuthKeys = {}
              => signer.res["hash"] = ExpectedHash(signer.res["ts"])

\* the signer has signed a parameter set with keys of the caller's, none of
\* them ts, hash or apikey
C6_Witness ==
    /\ signer.state = "signed"
    /\ DOMAIN signer.parms = {"limit", "offset"}
    /\ signer.now > 0

\* C7: no two requests of a run carry the same ts and hash: no two signed
\* requests do, and none is written to a connection twice.
C7_NoStampReused ==
    LET all == earlier \o Stamps(sent)
    IN  /\ \A i, j \in 1..Len(all) :
               i < j => <<all[i].ts, all[i].hash>> # <<all[j].ts, all[j].hash>>
        /\ WireOf(last_reply.attempts) <= 1

\* C8: the story getStoryData returns has the attributionHTML of the
\* response envelope, also when the first result has its own; every other
\* field is the first result's.
C8_AttributionFromEnvelope ==
    (call.op = "getStoryData" /\ Succeeded) =>
        /\ outcome.value["attributionHTML"] = EnvelopeAttribution
        /\ DOMAIN outcome.value = DOMAIN StoryRecord(call.arg) \cup {"attributionHTML"}
        /\ \A k \in DOMAIN StoryRecord(call.arg) \ {"attributionHTML"} :
              outcome.value[k] = StoryRecord(call.arg)[k]

\* getStoryData has returned a story whose first result carries another
\* attributionHTML than the envelope
C8_Witness ==
    /\ call.op = "getStoryData"
    /\ Succeeded
    /\ "attributionHTML" \in DOMAIN StoryRecord(call.arg)
    /\ StoryRecord(call.arg)["attributionHTML"] # EnvelopeAttribution

\* C9 as stated: a not-found failure and a communication failure are of
\* two distinct error kinds.
C9_DistinctKinds ==
    \A f, g \in failures :
        (f.cause = "not_found" /\ g.cause \in {"status", "transport"})
            => f.class # g.class

RECURSIVE Join(_, _)
\* the strings of a list with sep between them
Join(sep, strs) ==
    IF Len(strs) = 0 THEN <<>>
    ELSE IF Len(strs) = 1 THEN strs[1]
    ELSE strs[1] \o sep \o Join(sep, Tail(strs))

CommaSpace == <<",", " ">>

Rendered(creators) ==
    [i \in 1..Len(creators) |->
        creators[i].name \o <<" ", "(">> \o creators[i].role \o <<")">>]

NamesOf(items) == [i \in 1..Len(items) |-> items[i].name]

\* C10: parseStoryData yields authors as the creators "Name (Role)" in
\* list order joined by ", ", series and events as the names joined by ", ",
\* with no trailing separator; an empty list yields the empty string.
C10_JoinedWithoutTrailingSeparator ==
    (call.op = "getStoryData" /\ Len(parsed) = 1) =>
        LET story == StoryRecord(call.arg)
        IN  /\ parsed[1].authors = Join(CommaSpace, Rendered(story.creators.items))
            /\ parsed[1].series = Join(CommaSpace, NamesOf(story.series.items))
            /\ parsed[1].events = Join(CommaSpace, NamesOf(story.events.items))

\* a story with two creators, one series and no event has been parsed
C10_Witness ==
    /\ call.op = "getStoryData"
    /\ Len(parsed) = 1
    /\ NCreators(call.arg) = 2
    /\ NSeries(call.arg) = 1
    /\ NEvents(call.arg) = 0
    /\ parsed[1].events = <<>>

\* the last call is the call the caller has kept, made again
Repeated ==
    /\ Finished
    /\ prev.op = call.op
    /\ prev.arg = call.arg

\* both calls went alike on the wire: as many requests, each answered with
\* the same status or left without a response, and the attempts urllib3
\* made of the last request ended the same way in the same order
WentAlike ==
    /\ RepliesOf(prev.requests) = RepliesOf(sent)
    /\ prev.attempts = last_reply.attempts

\* the parameters of a request without the signing fields ts and hash
Unsigned(fields) == [k \in DOMAIN fields \ {"ts", "hash"} |-> fields[k]]

\* the exception exc with ts and hash left out of the request target that
\* the error of request req names; any other exception as it is
Unstamped(exc, req) ==
    IF req.cause = "transport" /\ exc = req.exc
    THEN [exc EXCEPT !.arg = Append(RequestUri(req.url, Unsigned(req.fields)),
                                    exc.arg[Len(exc.arg)])]
    ELSE exc

ItemUrls(m) == [i \in 1..Len(m.items) |-> m.items[i].resourceURI]

IsPrefix(a, b) == Len(a) <= Len(b) /\ \A i \in 1..Len(a) : a[i] = b[i]

\* the API calls of a run that gets as far as writing the file
CallsOfRun(m) == (IF m.mode = "name" THEN 2 ELSE 0) + 1 + Len(m.items)

\* C12: out.html is written only after getStoryData and the
\* getCharacterInfoFromUrl call of every character item have succeeded, the
\* character calls made in item order; a run in which an API call has failed
\* has ended with an error and has not written the file.
C12_WrittenOnlyAfterAllSucceeded ==
    main.pc # "off" =>
        /\ IsPrefix(main.char_calls, ItemUrls(main))
        /\ main.file # <<>> =>
               /\ failures = {}
               /\ main.story_data # <<>>
               /\ main.char_calls = ItemUrls(main)
               /\ Len(main.character_data) = Len(main.items)
               /\ ncalls = CallsOfRun(main)
        /\ failures # {} =>
               /\ main.pc \in {"exit1", "uncaught"}
               /\ main.file = <<>>

\* a run in --name mode has written the page of a story with as many
\* characters as a story has, each fetched
C12_Witness ==
    /\ main.pc = "done"
    /\ main.mode = "name"
    /\ main.file # <<>>
    /\ Len(main.items) = MaxItems
    /\ Len(main.file[1].character_data) = MaxItems

=============================================================================
